---- MODULE Spec2Model ----
(***************************************************************************)
(* A model of git_core::Repo (src/git_core/src/git.rs): the repository     *)
(* session over a git object store.  The state is the part of a git        *)
(* repository the operations read and write: the commit store, the local   *)
(* branches with their tracking configuration, the remote-tracking         *)
(* branches of "origin", which references sit in packed-refs, HEAD, the    *)
(* index and the working tree.  Every operation is one atomic action that  *)
(* performs the whole method, the library calls it makes included.         *)
(***************************************************************************)
EXTENDS Naturals, Sequences, FiniteSets, TLC

VARIABLES
    commits,     \* the commit store: commits[c] = [parent, tree], parent 0 for a root
    heads,       \* refs/heads/<n>: the commit of local branch n, 0 when there is none
    upstream,    \* branch.<n> tracking configuration: "" or a remote branch name
    remoteRefs,  \* refs/remotes/origin/<n>: its commit, 0 when there is none
    packed,      \* the full names of the references stored in packed-refs
    HEAD,        \* the symbolic target of HEAD, "refs/heads/<n>"
    index,       \* the index: file -> content, 0 when the file is not in it
    workdir,     \* the working tree: file -> content, 0 when the file is absent
    remotes,     \* the names of the configured remotes
    result,      \* what the last operation did and returned
    config,      \* the Config the add-in owns: username, auth, email, path
    used,        \* what the last add-in operation read of the configuration
    pulling      \* the pull a second caller has in flight: what it has read

vars == <<commits, heads, upstream, remoteRefs, packed, HEAD, index, workdir,
          remotes, result, config, used, pulling>>

\* The state of the callers, which no operation of the core writes: the
\* add-in session and the pull in flight.
sessionVars == <<config, used, pulling>>

repoVars == <<commits, heads, upstream, remoteRefs, packed, HEAD, index, workdir,
              remotes>>

(***************************************************************************)
(* Bounds of the model.                                                    *)
(***************************************************************************)
\* A file's content is 1..MaxContent; 0 stands for "no such file".
MaxContent == 2
\* The commit store holds at most MaxCommits commits.
MaxCommits == 2

\* Branch names, in the byte order libgit2 sorts reference names in.
NameOrder == <<"dev", "main">>
Names == {NameOrder[i] : i \in 1..Len(NameOrder)}
Files == {"a.txt"}
Tree == [Files -> 0..MaxContent]
EmptyTree == [f \in Files |-> 0]

\* The repository every behaviour starts from holds three commits: 1 is a
\* root, 2 is its child, 3 is a root of an unrelated history with no files.
SeedCommits ==
    << [parent |-> 0, tree |-> [f \in Files |-> 1]],
       [parent |-> 1, tree |-> [f \in Files |-> 2]],
       [parent |-> 0, tree |-> EmptyTree] >>

CommitIds == 1..Len(commits)

\* The files of the repositories status, add_all and commit are followed on,
\* in path order.
PathOrder == <<"a.txt", "b.txt">>
StatusFiles == {PathOrder[i] : i \in 1..Len(PathOrder)}

(***************************************************************************)
(* Reference names.                                                        *)
(***************************************************************************)
\* format!("origin/{branch_name}")
RemoteBranchName(branch_name) == "origin/" \o branch_name
\* format!("refs/heads/{branch_name}")
HeadRefName(branch_name) == "refs/heads/" \o branch_name
RemoteRefName(branch_name) == "refs/remotes/" \o RemoteBranchName(branch_name)

\* The commit a remote branch name resolves to, 0 when there is no such branch.
RemoteTarget(remote_name) ==
    IF \E n \in Names : RemoteBranchName(n) = remote_name
    THEN remoteRefs[CHOOSE n \in Names : RemoteBranchName(n) = remote_name]
    ELSE 0

\* repo.head(): HEAD resolved to a direct reference; it fails on an unborn branch.
HeadBranch == CHOOSE n \in Names : HeadRefName(n) = HEAD
HeadCommit == heads[HeadBranch]

(***************************************************************************)
(* History.                                                                *)
(***************************************************************************)
RECURSIVE AncestorsOf(_)
\* The commits reachable from c by parent links, c included.
AncestorsOf(c) ==
    IF c = 0 THEN {} ELSE {c} \cup AncestorsOf(commits[c].parent)

IsAncestor(a, b) == a \in AncestorsOf(b)

\* What an operation returns and the library calls it made, in order.
\* "again" marks a call that repeats the successful call right before it.
NoResult ==
    [op |-> "none", arg |-> "", status |-> "ok", value |-> "", old_id |-> 0,
     new_id |-> 0, analysis |-> {}, list |-> <<>>, trace |-> <<>>,
     again |-> FALSE,
     entries |-> <<>>,
     summary |-> [branch_name |-> "", staged |-> <<>>, not_staged |-> <<>>,
                  untracked |-> <<>>],
     lines |-> <<>>,
     tracked |-> [local |-> "", upstream |-> <<>>],
     after |-> "", count |-> 0]

Returned(op, arg, status, value, trace) ==
    [NoResult EXCEPT !.op = op, !.arg = arg, !.status = status, !.value = value,
                     !.trace = trace,
                     !.again = (result.op = op /\ result.arg = arg
                                /\ result.status = "ok")]

(***************************************************************************)
(* fetch_all: one fetch per configured remote, pruning.  What the remote   *)
(* serves is an input: the transport fails, or it delivers the remote's    *)
(* branches, which replace the remote-tracking references.                 *)
(***************************************************************************)
\* Since the last fetch at most one branch of the remote has moved, appeared
\* or gone.
Fetches ==
    {[ok |-> FALSE, refs |-> remoteRefs]}
        \cup {[ok |-> TRUE, refs |-> s] :
                s \in {t \in [Names -> 0..Len(commits)] :
                         Cardinality({n \in Names : t[n] # remoteRefs[n]}) <= 1}}

\* for remote_name in self.repo.remotes(): with no remote nothing is fetched.
FetchOk(served) == remotes = {} \/ served.ok

\* The remote-tracking references after the fetch (FetchPrune::On deletes
\* the ones the remote no longer has).
FetchedRefs(served) ==
    IF remotes # {} /\ served.ok THEN served.refs ELSE remoteRefs

\* A reference the fetch wrote or deleted is no longer read from packed-refs.
FetchedPacked(served) ==
    packed \ {RemoteRefName(n) : n \in {m \in Names : FetchedRefs(served)[m] # remoteRefs[m]}}

(***************************************************************************)
(* pull                                                                    *)
(***************************************************************************)
ANALYSIS_NONE == {}
NORMAL == "NORMAL"
UP_TO_DATE == "UP_TO_DATE"
FASTFORWARD == "FASTFORWARD"
UNBORN == "UNBORN"
AnalysisBits == {NORMAL, UP_TO_DATE, FASTFORWARD, UNBORN}

\* git_merge_analysis_for_ref(our_ref, [their_head]) as libgit2 computes it.
\* An unborn HEAD gives FASTFORWARD|UNBORN; otherwise the merge base decides:
\* it is their commit (UP_TO_DATE), or our commit (FASTFORWARD|NORMAL), or
\* neither or none at all (NORMAL).
merge_analysis_for_ref(ours, theirs) ==
    IF ours = 0 THEN {FASTFORWARD, UNBORN}
    ELSE IF IsAncestor(theirs, ours) THEN {UP_TO_DATE}
    ELSE IF IsAncestor(ours, theirs) THEN {FASTFORWARD, NORMAL}
    ELSE {NORMAL}

\* git2's is_none/is_normal/...: self.intersects(flag); no value intersects
\* the empty flag ANALYSIS_NONE.
Intersects(analisis, flags) == analisis \cap flags # {}
is_none(analisis) == Intersects(analisis, ANALYSIS_NONE)
is_normal(analisis) == Intersects(analisis, {NORMAL})
is_up_to_date(analisis) == Intersects(analisis, {UP_TO_DATE})
is_fast_forward(analisis) == Intersects(analisis, {FASTFORWARD})
is_unborn(analisis) == Intersects(analisis, {UNBORN})

\* The same chain with the fast-forward test ahead of the normal one.
PullDecisionFastForwardFirst(analisis) ==
    IF is_none(analisis) THEN "None"
    ELSE IF is_fast_forward(analisis) THEN "FastForwarded"
    ELSE IF is_normal(analisis) THEN "Normal"
    ELSE IF is_up_to_date(analisis) THEN "UpToDate"
    ELSE IF is_unborn(analisis) THEN "Unborn"
    ELSE "unreachable"

\* The if/else-if chain of pull (lines 184-201): the first test that holds.
PullDecision(analisis) ==
    IF is_none(analisis) THEN "None"
    ELSE IF is_normal(analisis) THEN "Normal"
    ELSE IF is_up_to_date(analisis) THEN "UpToDate"
    ELSE IF is_fast_forward(analisis) THEN "FastForwarded"
    ELSE IF is_unborn(analisis) THEN "Unborn"
    ELSE "unreachable"

\* An upstream lookup that falls back to origin's branch of the same name.
UpstreamOrSameName(branch_name) ==
    IF upstream[branch_name] = "" THEN RemoteTarget(RemoteBranchName(branch_name))
    ELSE RemoteTarget(upstream[branch_name])

\* local_branch.upstream(): the tracking configuration must be set and the
\* remote-tracking branch it names must exist.
UpstreamOf(branch_name) ==
    IF upstream[branch_name] = "" THEN 0 ELSE RemoteTarget(upstream[branch_name])

\* A set_target on the branch HEAD names instead of the branch found.
set_target_of_head(branch_name, id) == [heads EXCEPT ![HeadBranch] = id]

\* local.get_mut().set_target(upstream_commit.id(), ..) (line 191): the
\* reference of the local branch found by name gets the new target.
set_target(branch_name, id) == [heads EXCEPT ![branch_name] = id]

\* pull with the analysis value given: the lookups, then the decision chain.
PullWith(branch_name, analisis) ==
    LET old_id == heads[branch_name]
        remote_commit == UpstreamOf(branch_name)
        decision == PullDecision(analisis)
    IN  IF old_id = 0
        THEN /\ result' = Returned("pull", branch_name, "err", "branch not found",
                                   <<"find_branch">>)
             /\ UNCHANGED repoVars
        ELSE IF remote_commit = 0
        THEN /\ result' = Returned("pull", branch_name, "err", "upstream not found",
                                   <<"find_branch", "upstream">>)
             /\ UNCHANGED repoVars
        ELSE IF decision = "unreachable"
        THEN /\ result' = [Returned("pull", branch_name, "panic", decision,
                                    <<"find_branch", "upstream",
                                      "merge_analysis_for_ref">>)
                            EXCEPT !.analysis = analisis]
             /\ UNCHANGED repoVars
        ELSE IF decision = "FastForwarded"
        THEN /\ heads' = set_target(branch_name, remote_commit)
             /\ packed' = packed \ {HeadRefName(branch_name)}
             /\ result' = [Returned("pull", branch_name, "ok", decision,
                                    <<"find_branch", "upstream",
                                      "merge_analysis_for_ref", "set_target">>)
                            EXCEPT !.old_id = old_id, !.new_id = heads'[branch_name],
                                   !.analysis = analisis]
             /\ UNCHANGED <<commits, upstream, remoteRefs, HEAD, index, workdir, remotes>>
        ELSE /\ result' = [Returned("pull", branch_name, "ok", decision,
                                    <<"find_branch", "upstream",
                                      "merge_analysis_for_ref">>)
                            EXCEPT !.analysis = analisis]
             /\ UNCHANGED repoVars

\* pub fn pull(&self, branch_name): the analysis is the library's.
Pull(branch_name) ==
    PullWith(branch_name,
             merge_analysis_for_ref(heads[branch_name], UpstreamOf(branch_name)))

(***************************************************************************)
(* The branch list: repo.branches(None).  libgit2 iterates the loose       *)
(* references in name order (refs/heads/ before refs/remotes/) and then    *)
(* the references of packed-refs that no loose reference shadows.          *)
(***************************************************************************)
LocalItem(n) ==
    [name |-> n, type |-> "Local", target |-> heads[n], ref |-> HeadRefName(n)]

RemoteItem(n, rrefs) ==
    [name |-> RemoteBranchName(n), type |-> "Remote", target |-> rrefs[n],
     ref |-> RemoteRefName(n)]

SortedBranches(rrefs) ==
    LET all == [i \in 1..(2 * Len(NameOrder)) |->
                   IF i <= Len(NameOrder) THEN LocalItem(NameOrder[i])
                   ELSE RemoteItem(NameOrder[i - Len(NameOrder)], rrefs)]
        Exists(b) == b.target # 0
    IN  SelectSeq(all, Exists)

\* The list with the remote branches ahead of the local ones.
BranchListRemotesFirst(rrefs, pk) ==
    LET Local(b) == b.type = "Local"
        Remote(b) == b.type = "Remote"
    IN  SelectSeq(SortedBranches(rrefs), Remote) \o SelectSeq(SortedBranches(rrefs), Local)

BranchList(rrefs, pk) ==
    LET Loose(b) == b.ref \notin pk
        Packed(b) == b.ref \in pk
    IN  SelectSeq(SortedBranches(rrefs), Loose) \o SelectSeq(SortedBranches(rrefs), Packed)

\* The closure with a remote arm that accepts every remote branch.
MatchesAnyRemote(b, branch_name) ==
    IF b.type = "Local" THEN b.name = branch_name ELSE TRUE

\* The closure of checkout's find (lines 138-141).
Matches(b, branch_name) ==
    IF b.type = "Local" THEN b.name = branch_name
    ELSE b.name = RemoteBranchName(branch_name)

\* Iterator::find: the position of the first match, 0 when nothing matches.
FindBranch(list, branch_name) ==
    LET hits == {i \in 1..Len(list) : Matches(list[i], branch_name)}
    IN  IF hits = {} THEN 0 ELSE CHOOSE i \in hits : \A j \in hits : i <= j

(***************************************************************************)
(* branches                                                                *)
(***************************************************************************)
Branches(served) ==
    IF ~FetchOk(served)
    THEN /\ result' = Returned("branches", "", "err", "fetch failed",
                               <<"fetch_all">>)
         /\ UNCHANGED repoVars
    ELSE /\ remoteRefs' = FetchedRefs(served)
         /\ packed' = FetchedPacked(served)
         /\ result' = [Returned("branches", "", "ok", "", <<"fetch_all", "branches">>)
                        EXCEPT !.list = BranchList(remoteRefs', packed')]
         /\ UNCHANGED <<commits, heads, upstream, HEAD, index, workdir, remotes>>

(***************************************************************************)
(* checkout                                                                *)
(***************************************************************************)
\* A safe checkout: a file the user modified keeps the user's content.
CheckoutHeadFileSafe(target, idx, wd) ==
    IF target # 0 /\ wd = idx THEN [index |-> target, workdir |-> target]
    ELSE [index |-> idx, workdir |-> wd]

\* checkout_head with force and allow_conflicts: every file of HEAD's tree is
\* written to the working tree and the index; a file that is not in HEAD's
\* tree is removed when the index tracks it and left alone when it is
\* untracked.
CheckoutHeadFile(target, idx, wd) ==
    IF target # 0 THEN [index |-> target, workdir |-> target]
    ELSE IF idx # 0 /\ wd # 0 THEN [index |-> 0, workdir |-> 0]
    ELSE [index |-> idx, workdir |-> wd]

CheckoutHead(tree) ==
    /\ index' = [f \in Files |-> CheckoutHeadFile(tree[f], index[f], workdir[f]).index]
    /\ workdir' = [f \in Files |-> CheckoutHeadFile(tree[f], index[f], workdir[f]).workdir]

\* set_head("refs/heads/{branch_name}")
SetHead(branch_name) == HEAD' = HeadRefName(branch_name)

\* The same with force: an existing branch is overwritten.
CanCreateBranchForce(branch_name) == TRUE

\* repo.branch(branch_name, &commit, false): without force it fails when the
\* branch exists.
CanCreateBranch(branch_name) == heads[branch_name] = 0

\* The branch is created and its upstream is left unset.
CreateBranchOnly(branch_name, commit, remote_branch_name) ==
    /\ heads' = [heads EXCEPT ![branch_name] = commit]
    /\ UNCHANGED upstream

\* repo.branch(branch_name, &commit, false)?.set_upstream(Some(&remote_branch_name))
CreateTrackingBranch(branch_name, commit, remote_branch_name) ==
    /\ heads' = [heads EXCEPT ![branch_name] = commit]
    /\ upstream' = [upstream EXCEPT ![branch_name] = remote_branch_name]

\* The library calls of checkout that write, in the order of the code; each
\* can return an error (a lock file left by another process, a read-only
\* file), and "none" stands for a run in which none does.
CheckoutSteps == {"set_upstream", "set_head", "checkout_head"}

\* The calls made up to and including the call named last.
CheckoutTrace(created, last) ==
    LET all == IF created
               THEN <<"fetch_all", "branches", "branch", "set_upstream", "set_head",
                      "checkout_head">>
               ELSE <<"fetch_all", "branches", "set_head", "checkout_head">>
        n == CHOOSE i \in 1..Len(all) : all[i] = last
    IN  SubSeq(all, 1, n)

\* pub fn checkout(&self, branch_name) in a run where the call `failing`
\* returns an error: every `?` returns at once, and what the calls before it
\* wrote stays written.
CheckoutWith(branch_name, served, failing) ==
    LET remote_branch_name == RemoteBranchName(branch_name)
        rrefs == FetchedRefs(served)
        pk == FetchedPacked(served)
        list == BranchList(rrefs, pk)
        at == FindBranch(list, branch_name)
        created == at # 0 /\ list[at].type = "Remote"
        fails == IF failing = "set_upstream" /\ ~created THEN "none" ELSE failing
    IN  IF ~FetchOk(served)
        THEN /\ result' = Returned("checkout", branch_name, "err", "fetch failed",
                                   <<"fetch_all">>)
             /\ UNCHANGED repoVars
        ELSE IF at = 0
        THEN /\ remoteRefs' = rrefs
             /\ packed' = pk
             /\ result' = Returned("checkout", branch_name, "err",
                                   "no branch with this name",
                                   <<"fetch_all", "branches">>)
             /\ UNCHANGED <<commits, heads, upstream, HEAD, index, workdir, remotes>>
        ELSE IF list[at].type = "Remote" /\ ~CanCreateBranch(branch_name)
        THEN /\ remoteRefs' = rrefs
             /\ packed' = pk
             /\ result' = Returned("checkout", branch_name, "err",
                                   "a reference with that name already exists",
                                   <<"fetch_all", "branches", "branch">>)
             /\ UNCHANGED <<commits, heads, upstream, HEAD, index, workdir, remotes>>
        ELSE IF fails = "set_upstream"
        THEN /\ remoteRefs' = rrefs
             /\ packed' = pk
             /\ heads' = [heads EXCEPT ![branch_name] = list[at].target]
             /\ result' = Returned("checkout", branch_name, "err", "set_upstream failed",
                                   CheckoutTrace(created, "set_upstream"))
             /\ UNCHANGED <<commits, upstream, HEAD, index, workdir, remotes>>
        ELSE IF fails = "set_head"
        THEN /\ remoteRefs' = rrefs
             /\ packed' = pk
             /\ IF created
                THEN CreateTrackingBranch(branch_name, list[at].target,
                                          remote_branch_name)
                ELSE UNCHANGED <<heads, upstream>>
             /\ result' = Returned("checkout", branch_name, "err", "set_head failed",
                                   CheckoutTrace(created, "set_head"))
             /\ UNCHANGED <<commits, HEAD, index, workdir, remotes>>
        ELSE IF fails = "checkout_head"
        THEN /\ remoteRefs' = rrefs
             /\ packed' = pk
             /\ IF created
                THEN CreateTrackingBranch(branch_name, list[at].target,
                                          remote_branch_name)
                ELSE UNCHANGED <<heads, upstream>>
             /\ SetHead(branch_name)
             /\ result' = Returned("checkout", branch_name, "err", "checkout_head failed",
                                   CheckoutTrace(created, "checkout_head"))
             /\ UNCHANGED <<commits, index, workdir, remotes>>
        ELSE /\ remoteRefs' = rrefs
             /\ packed' = pk
             /\ IF created
                THEN CreateTrackingBranch(branch_name, list[at].target,
                                          remote_branch_name)
                ELSE UNCHANGED <<heads, upstream>>
             /\ SetHead(branch_name)
             /\ CheckoutHead(commits[heads'[branch_name]].tree)
             /\ result' = Returned("checkout", branch_name, "ok", "",
                                   CheckoutTrace(created, "checkout_head"))
             /\ UNCHANGED <<commits, remotes>>

\* pub fn checkout(&self, branch_name) when every library call after the
\* search succeeds.
Checkout(branch_name, served) == CheckoutWith(branch_name, served, "none")

(***************************************************************************)
(* checkout of the first add-in (src/src/git.rs): the same search, then a  *)
(* hard reset to the commit found and set_head on the short name of the    *)
(* reference found.                                                        *)
(***************************************************************************)
\* HEAD names one of the branches the model follows.
HeadIsBranch == \E n \in Names : HeadRefName(n) = HEAD

\* repo.reset(&commit, ResetType::Hard, force): the branch HEAD points to
\* moves to the commit (it is created when HEAD is unborn), and the index and
\* the working tree are reset to the commit's tree.
ResetHard(commit) ==
    /\ heads' = [heads EXCEPT ![HeadBranch] = commit]
    /\ CheckoutHead(commits[commit].tree)

\* fn checkout of src/src/git.rs.  reference.shorthand() of a remote branch
\* is "origin/<name>", so set_head then names refs/heads/origin/<name>.
LegacyCheckout(branch_name, served) ==
    LET rrefs == FetchedRefs(served)
        pk == FetchedPacked(served)
        list == BranchList(rrefs, pk)
        at == FindBranch(list, branch_name)
    IN  /\ HeadIsBranch
        /\ IF ~FetchOk(served)
           THEN /\ result' = Returned("legacy_checkout", branch_name, "err",
                                      "fetch failed", <<"fetch_all">>)
                /\ UNCHANGED repoVars
           ELSE IF at = 0
           THEN /\ remoteRefs' = rrefs
                /\ packed' = pk
                /\ result' = Returned("legacy_checkout", branch_name, "err",
                                      "no branch with this name",
                                      <<"fetch_all", "branches">>)
                /\ UNCHANGED <<commits, heads, upstream, HEAD, index, workdir, remotes>>
           ELSE /\ remoteRefs' = rrefs
                /\ packed' = pk \ {HEAD}
                /\ ResetHard(list[at].target)
                /\ HEAD' = "refs/heads/" \o list[at].name
                /\ result' = Returned("legacy_checkout", branch_name, "ok", "",
                                      <<"fetch_all", "branches", "reset", "set_head">>)
                /\ UNCHANGED <<commits, upstream, remotes>>

(***************************************************************************)
(* push                                                                    *)
(***************************************************************************)
\* The short name of the branch, "main" for refs/heads/main.
repo_head_shorthand == HeadBranch

\* repo_head.name(): the full name of the reference HEAD resolves to.
repo_head_name == HEAD

\* Whether the remote accepts the push is an input.  An accepted push also
\* updates the remote-tracking reference of the pushed branch.
Push(accepted) ==
    LET branch_name == repo_head_name IN
    IF "origin" \notin remotes
    THEN /\ result' = Returned("push", "", "err", "remote 'origin' does not exist",
                               <<"find_remote">>)
         /\ UNCHANGED repoVars
    ELSE IF HeadCommit = 0
    THEN /\ result' = Returned("push", "", "err", "reference not found",
                               <<"find_remote", "head">>)
         /\ UNCHANGED repoVars
    ELSE IF ~accepted
    THEN /\ result' = Returned("push", branch_name, "err", "push failed",
                               <<"find_remote", "head", "push">>)
         /\ UNCHANGED repoVars
    ELSE /\ remoteRefs' = [remoteRefs EXCEPT ![HeadBranch] = HeadCommit]
         /\ packed' = IF remoteRefs[HeadBranch] = HeadCommit THEN packed
                      ELSE packed \ {RemoteRefName(HeadBranch)}
         /\ result' = Returned("push", branch_name, "ok", "",
                               <<"find_remote", "head", "push">>)
         /\ UNCHANGED <<commits, heads, upstream, HEAD, index, workdir, remotes>>

(***************************************************************************)
(* commit                                                                  *)
(***************************************************************************)
\* A commit object without a parent.
NewCommitOrphan(parent_commit, tree) == [parent |-> 0, tree |-> tree]

\* The commit object repo.commit writes: parents = [parent_commit], the tree
\* given.
NewCommit(parent_commit, tree) == [parent |-> parent_commit, tree |-> tree]

\* A tree without entries, whatever the index holds.
write_tree_empty(idx) == [p \in DOMAIN idx |-> 0]

\* index.write_tree(): the tree of the entries of the index.
write_tree(idx) == idx

\* A lookup that hands out "no commit" for an unborn branch instead of failing.
find_last_commit_or_none == [ok |-> TRUE, commit |-> HeadCommit]

\* fn find_last_commit: HEAD resolved and peeled to a commit; head() fails
\* while the branch HEAD names has no commit.
find_last_commit == [ok |-> HeadCommit # 0, commit |-> HeadCommit]

\* pub fn commit(&self, message): the tree is written from the index, the
\* parent is the commit HEAD resolves to (find_last_commit), the signature is
\* built from the configured user name and e-mail (it is refused when one of
\* them is empty: signed is an input), and repo.commit(Some("HEAD"), ...)
\* stores the commit and moves the branch HEAD points to onto it.
CommitWithin(signed, cap) ==
    LET parent_commit == find_last_commit.commit
        tree == write_tree(index)
    IN  IF ~find_last_commit.ok
        THEN /\ result' = Returned("commit", "", "err", "reference not found",
                                   <<"index", "write_tree", "find_tree", "head">>)
             /\ UNCHANGED repoVars
        ELSE IF ~signed
        THEN /\ result' = Returned("commit", "", "err",
                                   "Signature cannot have an empty name or email",
                                   <<"index", "write_tree", "find_tree", "head",
                                     "Signature::now">>)
             /\ UNCHANGED repoVars
        ELSE /\ Len(commits) < cap
             /\ commits' = Append(commits, NewCommit(parent_commit, tree))
             /\ heads' = [heads EXCEPT ![HeadBranch] = Len(commits')]
             /\ packed' = packed \ {HEAD}
             /\ result' = [Returned("commit", "", "ok", "",
                                    <<"index", "write_tree", "find_tree", "head",
                                      "Signature::now", "commit">>)
                            EXCEPT !.old_id = parent_commit, !.new_id = Len(commits')]
             /\ UNCHANGED <<upstream, remoteRefs, HEAD, index, workdir, remotes>>

\* commit in a store that holds at most MaxCommits commits.
Commit(signed) == CommitWithin(signed, MaxCommits)

(***************************************************************************)
(* add_all                                                                 *)
(***************************************************************************)
\* The paths the index and the working tree range over, in path order.
Paths == DOMAIN index

PathSeq ==
    LET Known(p) == p \in Paths
    IN  SelectSeq(PathOrder, Known)

\* index.len(): the number of entries of the index.
IndexLen(idx) == Cardinality({p \in DOMAIN idx : idx[p] # 0})

\* index.add_all(["."], IndexAddOption::DEFAULT, None): every difference
\* between the index and the working tree is applied to the index; a new or
\* changed file is added, the entry of a deleted file is removed.
AddAllPaths(idx, wd) == [p \in DOMAIN idx |-> wd[p]]

\* add_all_ of the add-in: Repo::add_all, then the length of the index it
\* returns is rendered.
AddAll ==
    /\ index' = AddAllPaths(index, workdir)
    /\ result' = [Returned("add_all", "",  "ok",
                           ToString(IndexLen(index')) \o " files to be committed",
                           <<"index", "add_all", "write">>)
                   EXCEPT !.count = IndexLen(index')]
    /\ UNCHANGED <<commits, heads, upstream, remoteRefs, packed, HEAD, workdir, remotes>>

(***************************************************************************)
(* status                                                                  *)
(***************************************************************************)
\* The options status() sets on the query (lines 87-91); an option it does
\* not set keeps the library's default, off.
StatusOptions ==
    [renames_from_rewrites |-> TRUE, include_untracked |-> TRUE,
     renames_head_to_index |-> TRUE, renames_index_to_workdir |-> FALSE]

HeadTree == commits[HeadCommit].tree

Delta(status, old_file, new_file) ==
    [status |-> status, old_file |-> old_file, new_file |-> new_file]

\* The kind of the difference of a path between HEAD's tree and the index,
\* "" when there is none.
DiffHeadToIndex(p) ==
    IF HeadTree[p] = index[p] THEN ""
    ELSE IF HeadTree[p] = 0 THEN "Added"
    ELSE IF index[p] = 0 THEN "Deleted"
    ELSE "Modified"

\* The kind of the difference of a path between the index and the working
\* tree; a file the index does not know is reported with include_untracked.
DiffIndexToWorkdir(options, p) ==
    IF index[p] = workdir[p] THEN ""
    ELSE IF index[p] = 0 THEN (IF options.include_untracked THEN "Untracked" ELSE "")
    ELSE IF workdir[p] = 0 THEN "Deleted"
    ELSE "Modified"

\* Rename detection between HEAD and the index: a path added to the index
\* with the content another path has in HEAD is a rename of that path when
\* the other path is deleted from the index, or (renames_from_rewrites) when
\* its new content is a rewrite.  Whether the library's similarity measure
\* takes a change of content for a rewrite is an input: rewritten.
HeadToIndexSources(options, rewritten, q) ==
    {p \in Paths \ {q} :
        /\ options.renames_head_to_index
        /\ DiffHeadToIndex(q) = "Added"
        /\ HeadTree[p] = index[q]
        /\ \/ DiffHeadToIndex(p) = "Deleted"
           \/ /\ options.renames_from_rewrites
              /\ rewritten
              /\ DiffHeadToIndex(p) = "Modified"}

HeadToIndexTargets(options, rewritten, p) ==
    {q \in Paths : p \in HeadToIndexSources(options, rewritten, q)}

\* entry.head_to_index() of the entry of path p: no delta, or one.
head_to_index(options, rewritten, p) ==
    IF HeadToIndexSources(options, rewritten, p) # {}
    THEN <<Delta("Renamed",
                 CHOOSE src \in HeadToIndexSources(options, rewritten, p) : TRUE, p)>>
    ELSE IF HeadToIndexTargets(options, rewritten, p) # {}
    THEN (IF DiffHeadToIndex(p) = "Modified" THEN <<Delta("Added", p, p)>> ELSE <<>>)
    ELSE IF DiffHeadToIndex(p) = "" THEN <<>>
    ELSE <<Delta(DiffHeadToIndex(p), p, p)>>

\* Rename detection between the index and the working tree, when the option
\* is on: an untracked file with the content of a tracked file that is gone
\* from the working tree is a rename of it.
IndexToWorkdirTargets(options, p) ==
    {q \in Paths \ {p} :
        /\ options.renames_index_to_workdir
        /\ DiffIndexToWorkdir(options, p) = "Deleted"
        /\ DiffIndexToWorkdir(options, q) = "Untracked"
        /\ workdir[q] = index[p]}

IndexToWorkdirSources(options, q) ==
    {p \in Paths : q \in IndexToWorkdirTargets(options, p)}

\* entry.index_to_workdir() of the entry of path p: no delta, or one.
index_to_workdir(options, p) ==
    IF IndexToWorkdirTargets(options, p) # {}
    THEN <<Delta("Renamed", p, CHOOSE q \in IndexToWorkdirTargets(options, p) : TRUE)>>
    ELSE IF IndexToWorkdirSources(options, p) # {} THEN <<>>
    ELSE IF DiffIndexToWorkdir(options, p) = "" THEN <<>>
    ELSE <<Delta(DiffIndexToWorkdir(options, p), p, p)>>

StatusEntry(options, rewritten, p) ==
    [path |-> p,
     head_to_index |-> head_to_index(options, rewritten, p),
     index_to_workdir |-> index_to_workdir(options, p)]

\* repo.statuses(options): one entry per path with a delta, in path order.
Statuses(options, rewritten) ==
    LET all == [i \in 1..Len(PathSeq) |-> StatusEntry(options, rewritten, PathSeq[i])]
        HasDelta(e) == e.head_to_index # <<>> \/ e.index_to_workdir # <<>>
    IN  SelectSeq(all, HasDelta)

\* FileStatus::from_delta
from_delta(delta) ==
    [status |-> delta.status, old_file |-> delta.old_file, new_file |-> delta.new_file]

\* StatusSummary::new
StatusSummaryNew(branch_name) ==
    [branch_name |-> branch_name, staged |-> <<>>, not_staged |-> <<>>,
     untracked |-> <<>>]

\* An add_entry that looks at the working tree only when nothing is staged.
add_entry_staged_else(summary, entry) ==
    IF entry.head_to_index # <<>>
    THEN [summary EXCEPT !.staged = Append(@, from_delta(entry.head_to_index[1]))]
    ELSE IF entry.index_to_workdir = <<>> THEN summary
    ELSE IF entry.index_to_workdir[1].status = "Untracked"
    THEN [summary EXCEPT !.untracked = Append(@, from_delta(entry.index_to_workdir[1]))]
    ELSE [summary EXCEPT !.not_staged = Append(@, from_delta(entry.index_to_workdir[1]))]

\* An add_entry without the arm for untracked files.
add_entry_no_untracked_arm(summary, entry) ==
    LET with_staged ==
            IF entry.head_to_index # <<>>
            THEN [summary EXCEPT !.staged = Append(@, from_delta(entry.head_to_index[1]))]
            ELSE summary
    IN  IF entry.index_to_workdir = <<>> THEN with_staged
        ELSE [with_staged EXCEPT
                 !.not_staged = Append(@, from_delta(entry.index_to_workdir[1]))]

\* StatusSummary::add_entry
add_entry(summary, entry) ==
    LET with_staged ==
            IF entry.head_to_index # <<>>
            THEN [summary EXCEPT !.staged = Append(@, from_delta(entry.head_to_index[1]))]
            ELSE summary
    IN  IF entry.index_to_workdir = <<>> THEN with_staged
        ELSE IF entry.index_to_workdir[1].status = "Untracked"
        THEN [with_staged EXCEPT
                 !.untracked = Append(@, from_delta(entry.index_to_workdir[1]))]
        ELSE [with_staged EXCEPT
                 !.not_staged = Append(@, from_delta(entry.index_to_workdir[1]))]

RECURSIVE Fold(_, _)
\* statuses.iter().fold(StatusSummary::new(branch_name), add_entry)
Fold(summary, entries) ==
    IF entries = <<>> THEN summary
    ELSE Fold(add_entry(summary, Head(entries)), Tail(entries))

(***************************************************************************)
(* The rendering of a summary: Display for FileStatus, status_ of the      *)
(* add-in, print_status_summary of the command line.                       *)
(***************************************************************************)
\* format!("{:10?}", status).to_lowercase(): the derived Debug of the kind
\* writes its name, in lower case here.
LowerCase(status) ==
    CASE status = "Added" -> "added"
      [] status = "Deleted" -> "deleted"
      [] status = "Modified" -> "modified"
      [] status = "Renamed" -> "renamed"
      [] status = "Untracked" -> "untracked"

\* impl Display for FileStatus
FileStatusToString(file) ==
    IF file.status = "Renamed"
    THEN LowerCase(file.status) \o ": " \o file.old_file \o " --> " \o file.new_file
    ELSE LowerCase(file.status) \o ": " \o file.old_file

RECURSIVE Join(_, _)
\* Itertools::join: the strings with the separator between them.
Join(strings, sep) ==
    IF strings = <<>> THEN ""
    ELSE IF Len(strings) = 1 THEN strings[1]
    ELSE strings[1] \o sep \o Join(Tail(strings), sep)

\* A write_section that writes the header of an empty section too.
write_section_always(res, header, contents) ==
    res \o header
        \o Join([i \in 1..Len(contents) |-> FileStatusToString(contents[i])], "\n\t")

\* The closure write_section of status_.
write_section(res, header, contents) ==
    IF contents # <<>>
    THEN res \o header
             \o Join([i \in 1..Len(contents) |-> FileStatusToString(contents[i])], "\n\t")
    ELSE res

\* fn status_ of the add-in, on the summary status() returned.
status_(summary) ==
    LET res == "on branch " \o summary.branch_name
    IN  IF summary.staged = <<>> /\ summary.not_staged = <<>> /\ summary.untracked = <<>>
        THEN res \o "\nnothing to commit, working tree clean"
        ELSE write_section(
                 write_section(
                     write_section(res, "\nChanges to be committed:\n\t", summary.staged),
                     "\nChanges not staged for commit:\n\t", summary.not_staged),
                 "\nUntracked files:\n\t", summary.untracked)

\* The closure print_section of print_status_summary: the lines it prints.
print_section(header, contents) ==
    IF contents = <<>> THEN <<>>
    ELSE <<header>> \o [i \in 1..Len(contents) |-> "\t" \o FileStatusToString(contents[i])]

\* fn print_status_summary of the command line: the lines it prints.
print_status_summary(summary) ==
    IF summary.staged = <<>> /\ summary.not_staged = <<>> /\ summary.untracked = <<>>
    THEN <<"on branch " \o summary.branch_name, "nothing to commit, working tree clean">>
    ELSE <<"on branch " \o summary.branch_name>>
            \o print_section("Changes to be committed:", summary.staged)
            \o print_section("Changes not staged for commit:", summary.not_staged)
            \o print_section("Untracked files:", summary.untracked)

\* status with the options given, and both renderings of the summary.
StatusWith(options, rewritten) ==
    IF HeadCommit = 0
    THEN /\ result' = Returned("status", "", "err", "reference not found", <<"head">>)
         /\ UNCHANGED repoVars
    ELSE /\ result' = [Returned("status", "", "ok",
                                status_(Fold(StatusSummaryNew(HeadBranch),
                                             Statuses(options, rewritten))),
                                <<"head", "statuses">>)
                        EXCEPT !.after = result.op,
                               !.entries = Statuses(options, rewritten),
                               !.summary = Fold(StatusSummaryNew(HeadBranch),
                                                Statuses(options, rewritten)),
                               !.lines = print_status_summary(
                                             Fold(StatusSummaryNew(HeadBranch),
                                                  Statuses(options, rewritten)))]
         /\ UNCHANGED repoVars

\* pub fn status(&self)
Status(rewritten) == StatusWith(StatusOptions, rewritten)

(***************************************************************************)
(* current_branch                                                          *)
(***************************************************************************)
\* local.upstream().ok(): the name of the upstream branch, or nothing when
\* the lookup fails for whatever reason.
TrackedUpstream(local) ==
    IF UpstreamOf(local) = 0 THEN <<>> ELSE <<upstream[local]>>

\* A rendering that leaves the place of a missing upstream empty.
RenderTrackedBare(tracked) ==
    tracked.local \o ":" \o (IF tracked.upstream = <<>> THEN "" ELSE tracked.upstream[1])

\* current_branch_ of the add-in: format!("{local}:{upstream}") with the
\* placeholder for a missing upstream.
RenderTracked(tracked) ==
    tracked.local \o ":"
        \o (IF tracked.upstream = <<>> THEN "[No upstream branch tracked]"
            ELSE tracked.upstream[1])

\* pub fn current_branch(&self), and its rendering by the add-in.
CurrentBranch ==
    IF HeadCommit = 0
    THEN /\ result' = Returned("current_branch", "", "err", "reference not found",
                               <<"head">>)
         /\ UNCHANGED repoVars
    ELSE /\ result' = [Returned("current_branch", HeadBranch, "ok",
                                RenderTracked([local |-> HeadBranch,
                                               upstream |-> TrackedUpstream(HeadBranch)]),
                                <<"head", "find_branch", "upstream">>)
                        EXCEPT !.tracked = [local |-> HeadBranch,
                                            upstream |-> TrackedUpstream(HeadBranch)]]
         /\ UNCHANGED repoVars

(***************************************************************************)
(* What happens to the repository between two calls.                       *)
(***************************************************************************)
\* The user writes or deletes a file of the working tree.
EditFile(f, c) ==
    /\ c # workdir[f]
    /\ workdir' = [workdir EXCEPT ![f] = c]
    /\ result' = [NoResult EXCEPT !.op = "edit"]
    /\ UNCHANGED <<commits, heads, upstream, remoteRefs, packed, HEAD, index, remotes>>

ExistingRefs ==
    {HeadRefName(n) : n \in {m \in Names : heads[m] # 0}}
        \cup {RemoteRefName(n) : n \in {m \in Names : remoteRefs[m] # 0}}

\* git pack-refs --all (git gc runs it): every reference moves to packed-refs.
PackRefs ==
    /\ packed # ExistingRefs
    /\ packed' = ExistingRefs
    /\ result' = [NoResult EXCEPT !.op = "pack-refs"]
    /\ UNCHANGED <<commits, heads, upstream, remoteRefs, HEAD, index, workdir, remotes>>

(***************************************************************************)
(* The configuration of the add-in (struct Config) and what an operation   *)
(* reads of it.  auth is <<>> for AuthType::None and <<password>> for      *)
(* AuthType::Password(password).                                           *)
(***************************************************************************)
\* Config::default(): what Git::default() starts with.
DefaultConfig == [username |-> "", auth |-> <<>>, email |-> "", path |-> ""]

\* No operation has run yet.
NoUse == [path |-> "", cred |-> <<>>, signature |-> <<>>, previous |-> <<>>]

\* No pull in flight.
NoPull ==
    [phase |-> "idle", branch |-> "", old_id |-> 0, remote_commit |-> 0,
     analysis |-> {}, during |-> 0]

InitSession ==
    /\ config = DefaultConfig
    /\ used = NoUse
    /\ pulling = NoPull

(***************************************************************************)
(* The add-in (src/git_addin): the property setters write the Config the   *)
(* add-in owns; every operation opens the repository anew with a borrow of *)
(* that Config and runs the operation of the core.                         *)
(***************************************************************************)
\* The values the host writes to the properties.
Logins == {"", "ann"}
Passwords == {"old", "pw"}
Emails == {"", "ann@example.org"}
Catalogs == {"", "/repo"}

\* The directory that holds the repository, and the account origin accepts.
RepoPath == "/repo"
RemoteAccount == [username |-> "ann", password |-> "pw"]

\* fn set_login
SetLogin(login) ==
    /\ config' = [config EXCEPT !.username = login]
    /\ result' = [NoResult EXCEPT !.op = "set"]
    /\ UNCHANGED <<repoVars, used>>

\* fn set_password
SetPassword(password) ==
    /\ config' = [config EXCEPT !.auth = <<password>>]
    /\ result' = [NoResult EXCEPT !.op = "set"]
    /\ UNCHANGED <<repoVars, used>>

\* fn set_email
SetEmail(email) ==
    /\ config' = [config EXCEPT !.email = email]
    /\ result' = [NoResult EXCEPT !.op = "set"]
    /\ UNCHANGED <<repoVars, used>>

\* fn set_catalog
SetCatalog(catalog) ==
    /\ config' = [config EXCEPT !.path = catalog]
    /\ result' = [NoResult EXCEPT !.op = "set"]
    /\ UNCHANGED <<repoVars, used>>

\* A copy of the configuration taken when the add-in was constructed.
ConfigAtNew == DefaultConfig

\* Repo::open(&self.config): the session borrows the add-in's Config.
BorrowedConfig == config

\* register_credentials: with AuthType::Password the callback hands out the
\* user name and the password; with AuthType::None there is no callback.
Credentials(cfg) ==
    IF cfg.auth = <<>> THEN <<>>
    ELSE <<[username |-> cfg.username, password |-> cfg.auth[1]]>>

\* origin asks for credentials and accepts those of its account.
Authorized(cfg) == Credentials(cfg) = <<RemoteAccount>>

\* What an operation read; previous is what the operation before it offered
\* to the remote.
Use(path, cred, signature) ==
    [path |-> path, cred |-> cred, signature |-> signature, previous |-> used.cred]

\* fn open_repo fails: Repository::open finds no repository at the path.
OpenFails(op, cfg) ==
    /\ result' = Returned(op, "", "err", "could not find repository", <<"open">>)
    /\ used' = Use(cfg.path, <<>>, <<>>)
    /\ UNCHANGED <<repoVars, config>>

\* fn branches_ of the add-in
branches_ ==
    LET cfg == BorrowedConfig
    IN  IF cfg.path # RepoPath THEN OpenFails("branches", cfg)
        ELSE \E served \in Fetches :
                /\ (remotes # {} /\ served.ok) => Authorized(cfg)
                /\ Branches(served)
                /\ used' = Use(cfg.path,
                               IF remotes = {} THEN <<>> ELSE Credentials(cfg), <<>>)
                /\ UNCHANGED config

\* fn push_ of the add-in
push_ ==
    LET cfg == BorrowedConfig
    IN  IF cfg.path # RepoPath THEN OpenFails("push", cfg)
        ELSE \E accepted \in BOOLEAN :
                /\ accepted => Authorized(cfg)
                /\ Push(accepted)
                /\ used' = Use(cfg.path,
                               IF "origin" \in remotes /\ HeadCommit # 0
                               THEN Credentials(cfg) ELSE <<>>,
                               <<>>)
                /\ UNCHANGED config

\* fn commit_ of the add-in: Signature::now refuses an empty name or e-mail.
commit_ ==
    LET cfg == BorrowedConfig
    IN  IF cfg.path # RepoPath THEN OpenFails("commit", cfg)
        ELSE /\ Commit(cfg.username # "" /\ cfg.email # "")
             /\ used' = Use(cfg.path, <<>>,
                            IF find_last_commit.ok
                            THEN <<[name |-> cfg.username, email |-> cfg.email]>>
                            ELSE <<>>)
             /\ UNCHANGED config

(***************************************************************************)
(* Two callers on one repository: pull takes no lock, so its lookups and   *)
(* its reference update are separate steps and a commit of another caller  *)
(* can land between them.                                                  *)
(***************************************************************************)
\* The commit store of the two-caller runs holds at most MaxRaceCommits.
MaxRaceCommits == 3

\* pull up to the merge analysis (lines 175-183): the branch and its tip, the
\* upstream commit and the analysis are read; a lookup that fails returns
\* the error at once.
PullRead(branch_name) ==
    /\ pulling.phase # "read"
    /\ IF heads[branch_name] = 0 \/ UpstreamOf(branch_name) = 0
       THEN /\ Pull(branch_name)
            /\ pulling' = NoPull
       ELSE /\ pulling' = [phase |-> "read", branch |-> branch_name,
                           old_id |-> heads[branch_name],
                           remote_commit |-> UpstreamOf(branch_name),
                           analysis |-> merge_analysis_for_ref(heads[branch_name],
                                                               UpstreamOf(branch_name)),
                           during |-> 0]
            /\ UNCHANGED <<repoVars, result>>
    /\ UNCHANGED <<config, used>>

\* set_target writes through git_reference_create_matching with the target
\* the reference had when it was looked up: the update is refused when the
\* reference has moved since.
TargetMatches(branch_name, old_id) == heads[branch_name] = old_id

\* pull from the decision chain on (lines 184-201), on what PullRead read.
PullUpdate ==
    LET branch_name == pulling.branch
        decision == PullDecision(pulling.analysis)
        trace == <<"find_branch", "upstream", "merge_analysis_for_ref">>
    IN  /\ pulling.phase = "read"
        /\ pulling' = [pulling EXCEPT !.phase = "done"]
        /\ UNCHANGED <<config, used>>
        /\ IF decision = "unreachable"
           THEN /\ result' = [Returned("pull", branch_name, "panic", decision, trace)
                               EXCEPT !.analysis = pulling.analysis]
                /\ UNCHANGED repoVars
           ELSE IF decision = "FastForwarded" /\ ~TargetMatches(branch_name, pulling.old_id)
           THEN /\ result' = [Returned("pull", branch_name, "err",
                                       "old reference value does not match",
                                       Append(trace, "set_target"))
                               EXCEPT !.analysis = pulling.analysis]
                /\ UNCHANGED repoVars
           ELSE IF decision = "FastForwarded"
           THEN /\ heads' = set_target(branch_name, pulling.remote_commit)
                /\ packed' = packed \ {HeadRefName(branch_name)}
                /\ result' = [Returned("pull", branch_name, "ok", decision,
                                       Append(trace, "set_target"))
                               EXCEPT !.old_id = pulling.old_id,
                                      !.new_id = heads'[branch_name],
                                      !.analysis = pulling.analysis]
                /\ UNCHANGED <<commits, upstream, remoteRefs, HEAD, index, workdir, remotes>>
           ELSE /\ result' = [Returned("pull", branch_name, "ok", decision, trace)
                               EXCEPT !.analysis = pulling.analysis]
                /\ UNCHANGED repoVars

\* commit by the other caller; pulling.during keeps the commit it created on
\* the branch of the pull in flight.
RaceCommit(signed) ==
    /\ CommitWithin(signed, MaxRaceCommits)
    /\ pulling' = IF /\ pulling.phase = "read"
                     /\ result'.status = "ok"
                     /\ HeadBranch = pulling.branch
                  THEN [pulling EXCEPT !.during = result'.new_id]
                  ELSE pulling
    /\ UNCHANGED <<config, used>>

(***************************************************************************)
(* Initial states: a repository as Repo::open finds it.                    *)
(***************************************************************************)
TreeOfHead == IF HeadCommit = 0 THEN EmptyTree ELSE commits[HeadCommit].tree

\* Any repository over the seed commits with a clean working tree: each
\* local branch is absent or at a commit, tracking origin's branch of its
\* name or nothing; HEAD names a branch, possibly an unborn one.
InitOver(seed) ==
    /\ commits = seed
    /\ heads \in [Names -> 0..Len(seed)]
    /\ remotes \in {{}, {"origin"}}
    /\ upstream \in [Names -> {""} \cup {RemoteBranchName(n) : n \in Names}]
    /\ \A n \in Names :
          /\ upstream[n] \in {"", RemoteBranchName(n)}
          /\ (heads[n] = 0 \/ remotes = {}) => upstream[n] = ""
    /\ remoteRefs \in [Names -> 0..Len(seed)]
    /\ remotes = {} => \A n \in Names : remoteRefs[n] = 0
    /\ packed \in SUBSET ExistingRefs
    /\ HEAD \in {HeadRefName(n) : n \in Names}
    /\ index = TreeOfHead
    /\ workdir = TreeOfHead
    /\ result = NoResult
    /\ InitSession

InitRepo == InitOver(SeedCommits)

\* The same with every reference loose.
InitFlags == InitRepo /\ packed = {}

\* The same over two commits with different trees: a file, and no file.
InitCheckout == InitOver(<<SeedCommits[1], SeedCommits[3]>>)

\* A fresh clone: main checked out at commit 1, tracking origin/main.
InitClone ==
    /\ commits = SeedCommits
    /\ heads = [n \in Names |-> IF n = "main" THEN 1 ELSE 0]
    /\ remotes = {"origin"}
    /\ upstream = [n \in Names |-> IF n = "main" THEN RemoteBranchName(n) ELSE ""]
    /\ remoteRefs = [n \in Names |-> 1]
    /\ packed = {}
    /\ HEAD = HeadRefName("main")
    /\ index = TreeOfHead
    /\ workdir = TreeOfHead
    /\ result = NoResult
    /\ InitSession

\* A repository without a remote that tracks one file: main at its only
\* commit, dev unborn, HEAD on either, the working tree clean.
StatusSeed ==
    << [parent |-> 0, tree |-> [p \in StatusFiles |-> IF p = "b.txt" THEN 1 ELSE 0]] >>

InitStatus ==
    /\ commits = StatusSeed
    /\ heads = [n \in Names |-> IF n = "main" THEN 1 ELSE 0]
    /\ remotes = {}
    /\ upstream = [n \in Names |-> ""]
    /\ remoteRefs = [n \in Names |-> 0]
    /\ packed = {}
    /\ HEAD \in {HeadRefName(n) : n \in Names}
    /\ index = IF HeadCommit = 0 THEN [p \in StatusFiles |-> 0]
               ELSE commits[HeadCommit].tree
    /\ workdir = index
    /\ result = NoResult
    /\ InitSession

\* The repository at RepoPath when the add-in is constructed: main at its
\* only commit, tracking origin/main, every reference loose.
InitAddin ==
    /\ commits = StatusSeed
    /\ heads = [n \in Names |-> IF n = "main" THEN 1 ELSE 0]
    /\ remotes = {"origin"}
    /\ upstream = [n \in Names |-> IF n = "main" THEN RemoteBranchName(n) ELSE ""]
    /\ remoteRefs = [n \in Names |-> IF n = "main" THEN 1 ELSE 0]
    /\ packed = {}
    /\ HEAD = HeadRefName("main")
    /\ index = commits[1].tree
    /\ workdir = index
    /\ result = NoResult
    /\ InitSession

\* The repository of the two-caller runs: main is checked out at one of two
\* commits and tracks origin/main, which is at one of them too.
InitRace ==
    /\ commits = <<SeedCommits[1], SeedCommits[2]>>
    /\ heads \in [Names -> 0..2]
    /\ heads["main"] # 0 /\ heads["dev"] = 0
    /\ remotes = {"origin"}
    /\ upstream = [n \in Names |-> IF n = "main" THEN RemoteBranchName(n) ELSE ""]
    /\ remoteRefs \in [Names -> 0..2]
    /\ remoteRefs["dev"] = 0
    /\ packed = {}
    /\ HEAD = HeadRefName("main")
    /\ index = TreeOfHead
    /\ workdir = TreeOfHead
    /\ result = NoResult
    /\ InitSession

(***************************************************************************)
(* Specifications.                                                         *)
(***************************************************************************)
\* Every operation and every outside change, from a fresh clone.
Next ==
    \/ \E served \in Fetches : Branches(served) /\ UNCHANGED sessionVars
    \/ \E n \in Names, served \in Fetches : Checkout(n, served) /\ UNCHANGED sessionVars
    \/ \E accepted \in BOOLEAN : Push(accepted) /\ UNCHANGED sessionVars
    \/ \E n \in Names : Pull(n) /\ UNCHANGED sessionVars
    \/ \E f \in Files, c \in 0..MaxContent : EditFile(f, c) /\ UNCHANGED sessionVars
    \/ PackRefs /\ UNCHANGED sessionVars

Spec == InitClone /\ [][Next]_vars

\* pull on every repository.
NextPull == \E n \in Names : Pull(n) /\ UNCHANGED sessionVars

SpecPull == InitRepo /\ [][NextPull]_vars

\* pull's decision chain on every analysis value the flag type can hold.
NextFlags ==
    \E n \in Names, analisis \in SUBSET AnalysisBits :
        PullWith(n, analisis) /\ UNCHANGED sessionVars

SpecFlags == InitFlags /\ [][NextFlags]_vars

\* checkout on every repository, with edits and pack-refs in between.
NextCheckout ==
    \/ \E n \in Names, served \in Fetches : Checkout(n, served) /\ UNCHANGED sessionVars
    \/ \E f \in Files, c \in 0..MaxContent : EditFile(f, c) /\ UNCHANGED sessionVars
    \/ PackRefs /\ UNCHANGED sessionVars

SpecCheckout == InitCheckout /\ [][NextCheckout]_vars

\* add_all, commit and status on a repository the user edits.
NextStatus ==
    \/ \E p \in StatusFiles, c \in 0..MaxContent : EditFile(p, c) /\ UNCHANGED sessionVars
    \/ AddAll /\ UNCHANGED sessionVars
    \/ \E signed \in BOOLEAN : Commit(signed) /\ UNCHANGED sessionVars
    \/ \E rewritten \in BOOLEAN : Status(rewritten) /\ UNCHANGED sessionVars

SpecStatus == InitStatus /\ [][NextStatus]_vars

\* current_branch on every repository, with fetches in between.
NextBranch ==
    \/ CurrentBranch /\ UNCHANGED sessionVars
    \/ \E served \in Fetches : Branches(served) /\ UNCHANGED sessionVars

SpecBranch == InitFlags /\ [][NextBranch]_vars

\* The add-in: property setters and operations in any order.
NextAddin ==
    \/ \E login \in Logins : SetLogin(login) /\ UNCHANGED pulling
    \/ \E password \in Passwords : SetPassword(password) /\ UNCHANGED pulling
    \/ \E email \in Emails : SetEmail(email) /\ UNCHANGED pulling
    \/ \E catalog \in Catalogs : SetCatalog(catalog) /\ UNCHANGED pulling
    \/ branches_ /\ UNCHANGED pulling
    \/ push_ /\ UNCHANGED pulling
    \/ commit_ /\ UNCHANGED pulling

SpecAddin == InitAddin /\ [][NextAddin]_vars

\* push on every repository.
NextPush == \E accepted \in BOOLEAN : Push(accepted) /\ UNCHANGED sessionVars

SpecPush == InitFlags /\ [][NextPush]_vars

\* The first add-in's checkout on every repository, with edits in between,
\* for as long as HEAD names a branch the model follows.
NextLegacy ==
    \/ \E n \in Names, served \in Fetches :
          LegacyCheckout(n, served) /\ UNCHANGED sessionVars
    \/ \E f \in Files, c \in 0..MaxContent :
          HeadIsBranch /\ EditFile(f, c) /\ UNCHANGED sessionVars

SpecLegacy == InitCheckout /\ [][NextLegacy]_vars

\* checkout where any of its writing calls may fail, with edits in between.
NextCheckoutFaults ==
    \/ \E n \in Names, served \in Fetches, failing \in CheckoutSteps \cup {"none"} :
          CheckoutWith(n, served, failing) /\ UNCHANGED sessionVars
    \/ \E f \in Files, c \in 0..MaxContent : EditFile(f, c) /\ UNCHANGED sessionVars

\* The repositories of InitCheckout with every reference loose.
InitCheckoutFaults == InitCheckout /\ packed = {}

SpecCheckoutFaults == InitCheckoutFaults /\ [][NextCheckoutFaults]_vars

\* A pull in two steps and the commits and edits of another caller, in any
\* order.
NextRace ==
    \/ \E n \in Names : PullRead(n)
    \/ PullUpdate
    \/ \E signed \in BOOLEAN : RaceCommit(signed)
    \/ \E f \in Files, c \in 0..MaxContent : EditFile(f, c) /\ UNCHANGED sessionVars

SpecRace == InitRace /\ [][NextRace]_vars

(***************************************************************************)
(* Properties.                                                             *)
(***************************************************************************)
\* The tip of the remote-tracking branch that branch n is configured to track,
\* 0 when nothing is configured or the branch it names is gone.
TrackedTip(n) == IF upstream[n] = "" THEN 0 ELSE RemoteTarget(upstream[n])

RemoteOps == {"branches", "checkout", "push", "pull"}

\* C1: every call of branches, checkout, push or pull fetches all remotes
\* before it does anything else: the first library call of the operation is
\* fetch_all.
C1_FetchBeforeAnythingElse ==
    result.op \in RemoteOps =>
        /\ result.trace # <<>>
        /\ result.trace[1] = "fetch_all"

\* The order in which pull tests the bits, and the variant each bit gives.
Priority == <<NORMAL, UP_TO_DATE, FASTFORWARD, UNBORN>>
VariantOf(bit) ==
    CASE bit = NORMAL -> "Normal"
      [] bit = UP_TO_DATE -> "UpToDate"
      [] bit = FASTFORWARD -> "FastForwarded"
      [] bit = UNBORN -> "Unborn"

HighestPriorityBit(analisis) ==
    Priority[CHOOSE i \in 1..Len(Priority) :
                /\ Priority[i] \in analisis
                /\ \A j \in 1..(i - 1) : Priority[j] \notin analisis]

\* C2: when the analysis has several bits set, pull returns the variant of the
\* set bit that comes first in Normal, UpToDate, FastForward, Unborn; the
\* local branch moves (to the upstream tip) only when that variant is
\* FastForwarded.
C2_FirstMatchWins ==
    [][(/\ result'.op = "pull"
        /\ result'.status # "err"
        /\ Cardinality(result'.analysis) > 1)
       => /\ result'.status = "ok"
          /\ result'.value = VariantOf(HighestPriorityBit(result'.analysis))
          /\ IF result'.value = "FastForwarded"
             THEN heads' = [heads EXCEPT ![result'.arg] = TrackedTip(result'.arg)]
             ELSE heads' = heads]_vars

\* Normal+FastForward was analysed and pull answered Normal.
C2_Witness ==
    /\ result.op = "pull"
    /\ result.analysis = {NORMAL, FASTFORWARD}
    /\ result.value = "Normal"

\* The four seeded states of a branch n and its upstream.
NoCommonHistory(n) ==
    /\ heads[n] # 0
    /\ TrackedTip(n) # 0
    /\ AncestorsOf(heads[n]) \cap AncestorsOf(TrackedTip(n)) = {}

FastForwardable(n) ==
    /\ heads[n] # 0
    /\ TrackedTip(n) # 0
    /\ heads[n] # TrackedTip(n)
    /\ IsAncestor(heads[n], TrackedTip(n))

AlreadyUpToDate(n) ==
    /\ heads[n] # 0
    /\ TrackedTip(n) # 0
    /\ IsAncestor(TrackedTip(n), heads[n])

UnbornLocal(n) == HEAD = HeadRefName(n) /\ heads[n] = 0

\* C3: in each of the four seeded states pull returns Ok: FastForwarded when
\* the branch is fast-forwardable, UpToDate when it is up to date, Unborn on
\* an unborn branch, and a fourth variant when there is no common history.
C3_SeededStatesGiveDistinctVariants ==
    [][result'.op = "pull"
       => /\ FastForwardable(result'.arg)
                => result'.status = "ok" /\ result'.value = "FastForwarded"
          /\ AlreadyUpToDate(result'.arg)
                => result'.status = "ok" /\ result'.value = "UpToDate"
          /\ UnbornLocal(result'.arg)
                => result'.status = "ok" /\ result'.value = "Unborn"
          /\ NoCommonHistory(result'.arg)
                => /\ result'.status = "ok"
                   /\ result'.value \notin {"UpToDate", "FastForwarded", "Unborn"}]_vars

\* C4: a pull that returns FastForwarded reports the old tip and the upstream
\* tip, leaves the branch at the upstream tip, which descends from the old
\* tip, and creates no commit.  Under the library's analysis this holds of no
\* call at all, see C4_NeverFastForwarded.
C4_FastForwardedIsAFastForward ==
    [][(result'.op = "pull" /\ result'.value = "FastForwarded")
       => /\ result'.old_id = heads[result'.arg]
          /\ result'.new_id = TrackedTip(result'.arg)
          /\ heads'[result'.arg] = result'.new_id
          /\ IsAncestor(result'.old_id, result'.new_id)
          /\ commits' = commits]_vars

\* No pull of the library's own analysis ever returns FastForwarded.
C4_NeverFastForwarded == ~(result.op = "pull" /\ result.value = "FastForwarded")

\* C5: pull of a branch that does not exist, or that has no upstream
\* configured, returns an error and moves no reference.
C5_PullNeedsBranchAndUpstream ==
    [][(/\ result'.op = "pull"
        /\ (heads[result'.arg] = 0 \/ upstream[result'.arg] = ""))
       => /\ result'.status = "err"
          /\ heads' = heads
          /\ upstream' = upstream
          /\ remoteRefs' = remoteRefs
          /\ HEAD' = HEAD]_vars

\* pull failed on a branch that exists and tracks nothing, although origin
\* has a branch of its name.
C5_Witness ==
    /\ result.op = "pull"
    /\ result.status = "err"
    /\ heads[result.arg] # 0
    /\ upstream[result.arg] = ""
    /\ remoteRefs[result.arg] # 0

\* A checkout call whose fetch went through.
CheckoutFetched == result'.op = "checkout" /\ result'.value # "fetch failed"

C7_NeverOverwritesLocalBranch ==
    [][result'.op = "checkout"
       => \A n \in Names :
             heads[n] # 0 => heads'[n] = heads[n] /\ upstream'[n] = upstream[n]]_vars

\* checkout met the remote branch first while the local branch existed at
\* another commit, and refused to create it.
C7_Witness ==
    /\ result.op = "checkout"
    /\ result.value = "a reference with that name already exists"
    /\ heads[result.arg] # 0
    /\ heads[result.arg] # remoteRefs[result.arg]

\* C8: checkout(name) with the fetch done and neither a local branch name nor
\* a remote branch origin/name fails with "no branch with this name" and
\* leaves HEAD, the local branches and the working tree as they were.
C8_NoBranchWithThisName ==
    [][(/\ CheckoutFetched
        /\ heads[result'.arg] = 0
        /\ remoteRefs'[result'.arg] = 0)
       => /\ result'.status = "err"
          /\ result'.value = "no branch with this name"
          /\ HEAD' = HEAD
          /\ heads' = heads
          /\ upstream' = upstream
          /\ workdir' = workdir]_vars

\* checkout found no branch of the name although other branches exist.
C8_Witness ==
    /\ result.op = "checkout"
    /\ result.value = "no branch with this name"
    /\ \E n \in Names : heads[n] # 0
    /\ \E n \in Names : remoteRefs[n] # 0

\* C9: after a successful checkout(name) HEAD is refs/heads/name, the branch
\* exists, and every file of its tip commit has the commit's content in the
\* working tree.
C9_FullySwitched ==
    (result.op = "checkout" /\ result.status = "ok")
        => /\ HEAD = HeadRefName(result.arg)
           /\ heads[result.arg] # 0
           /\ \A f \in Files :
                 commits[heads[result.arg]].tree[f] # 0
                    => workdir[f] = commits[heads[result.arg]].tree[f]

\* A successful checkout of a branch whose tip tracks a file.
C9_Witness ==
    /\ result.op = "checkout"
    /\ result.status = "ok"
    /\ heads[result.arg] # 0
    /\ \E f \in Files : commits[heads[result.arg]].tree[f] # 0

\* C10: a checkout(name) right after a successful checkout(name), with nothing
\* new on the remote, succeeds and changes nothing.
C10_CheckoutIdempotent ==
    [][(/\ result.op = "checkout"
        /\ result.status = "ok"
        /\ CheckoutFetched
        /\ result'.arg = result.arg
        /\ remoteRefs' = remoteRefs)
       => /\ result'.status = "ok"
          /\ HEAD' = HEAD
          /\ heads' = heads
          /\ upstream' = upstream
          /\ index' = index
          /\ workdir' = workdir]_vars

\* The second of two successive checkouts of a branch the first one created.
C10_Witness ==
    /\ result.op = "checkout"
    /\ result.status = "ok"
    /\ result.again
    /\ upstream[result.arg] = RemoteBranchName(result.arg)
    /\ HeadRefName(result.arg) \notin packed

\* C11: every successful commit adds exactly one commit to the store; its
\* parent is the commit HEAD resolved to before the call and its tree is the
\* tree of the index; the branch HEAD points to moves onto it, its id is
\* returned, and the symbolic target of HEAD stays as it was.
C11_CommitExtendsHead ==
    [][(result'.op = "commit" /\ result'.status = "ok")
       => /\ Len(commits') = Len(commits) + 1
          /\ SubSeq(commits', 1, Len(commits)) = commits
          /\ commits'[Len(commits')].parent = HeadCommit
          /\ HeadCommit # 0
          /\ commits'[Len(commits')].tree = index
          /\ index' = index
          /\ heads'[HeadBranch] = Len(commits')
          /\ result'.new_id = Len(commits')
          /\ HEAD' = HEAD]_vars

\* A commit that recorded a change: the tree of the new tip differs from its
\* parent's.
C11_Witness ==
    /\ result.op = "commit"
    /\ result.status = "ok"
    /\ HeadCommit = result.new_id
    /\ commits[HeadCommit].parent = result.old_id
    /\ commits[HeadCommit].tree # commits[result.old_id].tree

\* C12: a commit called while HEAD does not resolve to a commit (an unborn
\* branch) returns an error, creates no commit and leaves every reference,
\* HEAD included, as it was.
C12_UnbornHeadCommitFails ==
    [][(result'.op = "commit" /\ HeadCommit = 0)
       => /\ result'.status = "err"
          /\ commits' = commits
          /\ heads' = heads
          /\ remoteRefs' = remoteRefs
          /\ upstream' = upstream
          /\ HEAD' = HEAD]_vars

\* A commit refused on an unborn branch although the index had something to
\* commit.
C12_Witness ==
    /\ result.op = "commit"
    /\ result.status = "err"
    /\ HeadCommit = 0
    /\ \E p \in Paths : index[p] # 0

\* C13: a status called right after a successful commit returns an empty
\* staged bucket; when the working tree also equals the index, all three
\* buckets are empty.
C13_StatusAfterCommit ==
    [][(result.op = "commit" /\ result.status = "ok" /\ result'.op = "status")
       => /\ result'.status = "ok"
          /\ result'.summary.staged = <<>>
          /\ (workdir = index
                => /\ result'.summary.not_staged = <<>>
                   /\ result'.summary.untracked = <<>>)]_vars

\* A status right after a commit of a changed tree, with an edit left out of
\* the commit.
C13_Witness ==
    /\ result.op = "status"
    /\ result.after = "commit"
    /\ result.status = "ok"
    /\ result.summary.staged = <<>>
    /\ result.summary.not_staged # <<>>
    /\ commits[HeadCommit].parent # 0
    /\ commits[HeadCommit].tree # commits[commits[HeadCommit].parent].tree

\* The paths whose index entry differs from the tree of HEAD's commit: what
\* add_all has staged since the last commit.
StagedPaths == {p \in Paths : index[p] # HeadTree[p]}

\* C14: the number add_all reports ("N files to be committed") is the number
\* of paths that differ between HEAD and the index after the call.
C14_AddAllReportsStagedCount ==
    (result.op = "add_all" /\ result.status = "ok" /\ HeadCommit # 0)
        => result.value
              = ToString(Cardinality(StagedPaths)) \o " files to be committed"

\* A file status of the bucket names the path, as its old or its new file.
Listed(bucket, p) ==
    \E i \in 1..Len(bucket) : bucket[i].old_file = p \/ bucket[i].new_file = p

\* C15 as stated: a status lists every path that add_all staged and that
\* differs from HEAD in staged only (not in not_staged, not in untracked) when
\* the working tree still has what was staged, and in both staged and
\* not_staged when the path was changed in the working tree after add_all.
C15_StagedAndNotStaged ==
    (result.op = "status" /\ result.status = "ok")
        => \A p \in StagedPaths :
              /\ workdir[p] = index[p]
                    => /\ Listed(result.summary.staged, p)
                       /\ ~Listed(result.summary.not_staged, p)
                       /\ ~Listed(result.summary.untracked, p)
              /\ workdir[p] # index[p]
                    => /\ Listed(result.summary.staged, p)
                       /\ Listed(result.summary.not_staged, p)

\* C15 as amended: the same, except that a path whose deletion add_all
\* staged and that was created again afterwards is listed in staged and in
\* untracked instead of not_staged.
C15_StagedAndNotStagedOrUntracked ==
    (result.op = "status" /\ result.status = "ok")
        => \A p \in StagedPaths :
              /\ workdir[p] = index[p]
                    => /\ Listed(result.summary.staged, p)
                       /\ ~Listed(result.summary.not_staged, p)
                       /\ ~Listed(result.summary.untracked, p)
              /\ workdir[p] # index[p]
                    => /\ Listed(result.summary.staged, p)
                       /\ IF index[p] = 0
                          THEN /\ Listed(result.summary.untracked, p)
                               /\ ~Listed(result.summary.not_staged, p)
                          ELSE /\ Listed(result.summary.not_staged, p)
                               /\ ~Listed(result.summary.untracked, p)

\* A status that lists one staged path as staged only and another one, edited
\* after add_all, as staged and not staged.
C15_Witness ==
    /\ result.op = "status"
    /\ result.status = "ok"
    /\ \E p \in StagedPaths :
          /\ workdir[p] = index[p]
          /\ Listed(result.summary.staged, p)
    /\ \E p \in StagedPaths :
          /\ workdir[p] # index[p]
          /\ index[p] # 0
          /\ Listed(result.summary.staged, p)
          /\ Listed(result.summary.not_staged, p)

HasHeadToIndex(entry) == entry.head_to_index # <<>>
HasUntracked(entry) ==
    entry.index_to_workdir # <<>> /\ entry.index_to_workdir[1].status = "Untracked"
HasNotStaged(entry) ==
    entry.index_to_workdir # <<>> /\ entry.index_to_workdir[1].status # "Untracked"

\* The deltas a bucket must hold: one per entry that has the delta, in the
\* order of the entries.
ExpectedStaged ==
    LET sel == SelectSeq(result.entries, HasHeadToIndex)
    IN  [i \in 1..Len(sel) |-> sel[i].head_to_index[1]]
ExpectedUntracked ==
    LET sel == SelectSeq(result.entries, HasUntracked)
    IN  [i \in 1..Len(sel) |-> sel[i].index_to_workdir[1]]
ExpectedNotStaged ==
    LET sel == SelectSeq(result.entries, HasNotStaged)
    IN  [i \in 1..Len(sel) |-> sel[i].index_to_workdir[1]]

NumberOfDeltas ==
    Cardinality({i \in 1..Len(result.entries) : HasHeadToIndex(result.entries[i])})
        + Cardinality({i \in 1..Len(result.entries) :
                          result.entries[i].index_to_workdir # <<>>})

\* C16: the summary of a status holds, per entry and in the order of the
\* entries, the HEAD-to-index delta in staged when the entry has one, and the
\* index-to-workdir delta in untracked when its kind is untracked, in
\* not_staged when it is of another kind; so untracked holds only deltas of
\* kind untracked, not_staged holds none of them, and the buckets together hold
\* as many elements as the entries have deltas.
C16_FoldFillsBuckets ==
    (result.op = "status" /\ result.status = "ok")
        => /\ result.summary.staged = ExpectedStaged
           /\ result.summary.untracked = ExpectedUntracked
           /\ result.summary.not_staged = ExpectedNotStaged
           /\ \A i \in 1..Len(result.summary.untracked) :
                 result.summary.untracked[i].status = "Untracked"
           /\ \A i \in 1..Len(result.summary.not_staged) :
                 result.summary.not_staged[i].status # "Untracked"
           /\ Len(result.summary.staged) + Len(result.summary.not_staged)
                 + Len(result.summary.untracked) = NumberOfDeltas

\* A status over two entries: one with both deltas, which is in staged and in
\* not_staged, and one of an untracked file.
C16_Witness ==
    /\ result.op = "status"
    /\ result.status = "ok"
    /\ Len(result.entries) = 2
    /\ \E i \in 1..2 : HasHeadToIndex(result.entries[i]) /\ HasNotStaged(result.entries[i])
    /\ \E i \in 1..2 : HasUntracked(result.entries[i])
    /\ Len(result.summary.staged) = 1
    /\ Len(result.summary.not_staged) = 1
    /\ Len(result.summary.untracked) = 1

CleanLiteral == "nothing to commit, working tree clean"

IsSectionHeader(line) ==
    line \in {"Changes to be committed:", "Changes not staged for commit:",
              "Untracked files:"}

\* The headers of the sections that have entries, in the order staged, not
\* staged, untracked.
ExpectedHeaders(summary) ==
    (IF summary.staged # <<>> THEN <<"Changes to be committed:">> ELSE <<>>)
        \o (IF summary.not_staged # <<>> THEN <<"Changes not staged for commit:">>
            ELSE <<>>)
        \o (IF summary.untracked # <<>> THEN <<"Untracked files:">> ELSE <<>>)

\* C17: on a clean repository the three buckets are empty and the text is
\* "on branch <name>", a newline and the clean-tree literal, without a section
\* header; when a bucket has entries the clean-tree literal is absent and the
\* headers are those of the non-empty sections, in the order staged, not
\* staged, untracked.  The text of the add-in is the lines of the command
\* line joined by newlines.
C17_RenderedStatus ==
    (result.op = "status" /\ result.status = "ok")
        => /\ (HeadTree = index /\ index = workdir)
                 => /\ result.summary.staged = <<>>
                    /\ result.summary.not_staged = <<>>
                    /\ result.summary.untracked = <<>>
           /\ ExpectedHeaders(result.summary) = <<>>
                 => /\ result.value = "on branch " \o HeadBranch \o "\n" \o CleanLiteral
                    /\ result.lines = <<"on branch " \o HeadBranch, CleanLiteral>>
           /\ ExpectedHeaders(result.summary) # <<>>
                 => /\ \A i \in 1..Len(result.lines) : result.lines[i] # CleanLiteral
                    /\ result.lines[1] = "on branch " \o HeadBranch
                    /\ SelectSeq(result.lines, IsSectionHeader)
                          = ExpectedHeaders(result.summary)
                    /\ result.value = Join(result.lines, "\n")

\* A status rendered with the sections of not staged and untracked files and
\* without the section of staged ones.
C17_Witness ==
    /\ result.op = "status"
    /\ result.status = "ok"
    /\ result.summary.staged = <<>>
    /\ SelectSeq(result.lines, IsSectionHeader)
          = <<"Changes not staged for commit:", "Untracked files:">>

\* C18: the query detects renames between the index and the working tree: a
\* tracked file renamed in the working tree, with nothing staged, is reported
\* as one renamed entry in not_staged and not as a deleted entry plus an
\* untracked one.
C18_WorkdirRenameIsOneEntry ==
    (result.op = "status" /\ result.status = "ok" /\ HeadTree = index)
        => \A p \in Paths, q \in Paths :
              (/\ index[p] # 0
               /\ workdir[p] = 0
               /\ index[q] = 0
               /\ workdir[q] = index[p])
                 => /\ \E i \in 1..Len(result.summary.not_staged) :
                          result.summary.not_staged[i] = Delta("Renamed", p, q)
                    /\ ~\E i \in 1..Len(result.summary.not_staged) :
                          /\ result.summary.not_staged[i].status = "Deleted"
                          /\ result.summary.not_staged[i].old_file = p
                    /\ ~Listed(result.summary.untracked, q)

\* C19: current_branch does not fail for a missing upstream: with HEAD on an
\* existing local branch it succeeds; without a tracking configuration the
\* upstream is None and the text is "<local>:[No upstream branch tracked]";
\* with an upstream that resolves the text is "<local>:<upstream>".
C19_MissingUpstreamIsNoError ==
    result.op = "current_branch"
        => /\ HeadCommit # 0
                 => /\ result.status = "ok"
                    /\ result.tracked.local = HeadBranch
           /\ (HeadCommit # 0 /\ upstream[HeadBranch] = "")
                 => /\ result.tracked.upstream = <<>>
                    /\ result.value = HeadBranch \o ":[No upstream branch tracked]"
           /\ (HeadCommit # 0 /\ TrackedTip(HeadBranch) # 0)
                 => /\ result.tracked.upstream = <<upstream[HeadBranch]>>
                    /\ result.value = HeadBranch \o ":" \o upstream[HeadBranch]

\* current_branch on a branch without tracking configuration, in a
\* repository that has a remote with that branch.
C19_Witness ==
    /\ result.op = "current_branch"
    /\ result.status = "ok"
    /\ upstream[HeadBranch] = ""
    /\ remoteRefs[HeadBranch] # 0
    /\ result.tracked.upstream = <<>>
    /\ result.value = HeadBranch \o ":[No upstream branch tracked]"

\* C20: in a TrackedBranch that current_branch returned, upstream is None
\* exactly when the local branch has no tracking configuration; a configured
\* branch never gives None, whether or not the reference it names resolves.
C20_NoneIffNotConfigured ==
    (result.op = "current_branch" /\ result.status = "ok")
        => (result.tracked.upstream = <<>> <=> upstream[result.tracked.local] = "")

AddinOps == {"branches", "push", "commit"}

\* C21: every operation of the add-in uses the configuration as the latest
\* setters left it: it opens the repository at the current path, offers the
\* remote no credentials but the current user name and password, signs a
\* commit with the current user name and e-mail, and succeeds only on what
\* the current values allow.
C21_LiveConfiguration ==
    [][result'.op \in AddinOps
       => /\ used'.path = config.path
          /\ used'.cred \in {<<>>, Credentials(config)}
          /\ used'.signature
                \in {<<>>, <<[name |-> config.username, email |-> config.email]>>}
          /\ result'.status = "ok" => config.path = RepoPath
          /\ (result'.op = "push" /\ result'.status = "ok")
                => used'.cred = <<RemoteAccount>>
          /\ (result'.op = "commit" /\ result'.status = "ok")
                => /\ used'.signature # <<>>
                   /\ config.username # ""
                   /\ config.email # ""]_vars

\* A push accepted with the password set last, after an operation that
\* offered the password set before it.
C21_Witness ==
    /\ result.op = "push"
    /\ result.status = "ok"
    /\ used.cred = <<RemoteAccount>>
    /\ used.previous # <<>>
    /\ used.previous # used.cred

\* How often the library call is in the trace of the last operation.
Calls(trace, call) == Cardinality({i \in 1..Len(trace) : trace[i] = call})

\* C22: push attempts at most one push, of the full name of the reference
\* HEAD resolves to; without a remote origin or with a HEAD that does not
\* resolve it fails before any push; a failed push is not tried again; and
\* no push changes HEAD or a local branch.
C22_PushOnceOneRef ==
    [][result'.op = "push"
       => /\ Calls(result'.trace, "push") <= 1
          /\ Calls(result'.trace, "push") = 1 => result'.arg = HEAD
          /\ ("origin" \notin remotes \/ HeadCommit = 0)
                => /\ result'.status = "err"
                   /\ Calls(result'.trace, "push") = 0
          /\ result'.status = "err" => remoteRefs' = remoteRefs
          /\ HEAD' = HEAD
          /\ heads' = heads
          /\ upstream' = upstream]_vars

\* A push the remote refused: one attempt, an error, nothing changed.
C22_Witness ==
    /\ result.op = "push"
    /\ result.status = "err"
    /\ result.value = "push failed"
    /\ Calls(result.trace, "push") = 1
    /\ result.arg = HEAD
    /\ remoteRefs[HeadBranch] # HeadCommit

\* What checkout of git_core leaves behind when it is called in the current
\* state and the fetch leaves the remote-tracking references rrefs, pk of
\* them packed: whether it succeeds, HEAD, the local branches, the working
\* tree.
CoreCheckoutOutcome(branch_name, rrefs, pk) ==
    LET list == BranchList(rrefs, pk)
        at == FindBranch(list, branch_name)
        found == at # 0
        create == found /\ list[at].type = "Remote"
        heads_after == IF create THEN [heads EXCEPT ![branch_name] = list[at].target]
                       ELSE heads
        tree == IF found /\ heads_after[branch_name] # 0
                THEN commits[heads_after[branch_name]].tree
                ELSE index
    IN  [ok |-> found /\ (create => CanCreateBranch(branch_name)),
         HEAD |-> HeadRefName(branch_name),
         heads |-> heads_after,
         workdir |-> [f \in Files |->
                        CheckoutHeadFile(tree[f], index[f], workdir[f]).workdir]]

\* The packed references the search of a checkout of the first add-in saw:
\* the reset rewrites only the reference HEAD names.
LegacyPacked == packed' \cup (packed \cap {HEAD})

\* C23: whenever the checkout of the first add-in (hard reset, then HEAD) and
\* the checkout of git_core (HEAD, then forced checkout) both succeed on a
\* state and a name, they leave the same HEAD, the same commit for every
\* local branch and the same working tree.
C23_CheckoutStrategiesAgree ==
    [][(/\ result'.op = "legacy_checkout"
        /\ result'.status = "ok"
        /\ CoreCheckoutOutcome(result'.arg, remoteRefs', LegacyPacked).ok)
       => /\ HEAD' = CoreCheckoutOutcome(result'.arg, remoteRefs', LegacyPacked).HEAD
          /\ heads' = CoreCheckoutOutcome(result'.arg, remoteRefs', LegacyPacked).heads
          /\ workdir'
                = CoreCheckoutOutcome(result'.arg, remoteRefs', LegacyPacked).workdir]_vars

\* CoreCheckoutOutcome is what the checkout of git_core does.
CoreCheckoutOutcomeIsCheckout ==
    [][result'.op = "checkout" /\ CheckoutFetched
       => /\ result'.status = "ok"
             <=> CoreCheckoutOutcome(result'.arg, remoteRefs', packed').ok
          /\ result'.status = "ok"
                => /\ HEAD' = CoreCheckoutOutcome(result'.arg, remoteRefs', packed').HEAD
                   /\ heads' = CoreCheckoutOutcome(result'.arg, remoteRefs', packed').heads
                   /\ workdir'
                         = CoreCheckoutOutcome(result'.arg, remoteRefs', packed').workdir]_vars

PullVariants == {"None", "Normal", "UpToDate", "FastForwarded", "Unborn"}

C25_ExistingLocalBranchIsCheckedOut ==
    [][(CheckoutFetched /\ heads[result'.arg] # 0)
       => /\ result'.status = "ok"
          /\ HEAD' = HeadRefName(result'.arg)]_vars

\* C26: a pull changes nothing but the target of the local branch it names:
\* HEAD, the index, the working tree, the remote-tracking references, the
\* upstreams and every other local branch stay; unless the result is
\* FastForwarded (every error included) the named branch stays too.  So a
\* FastForwarded pull of the checked-out branch leaves the index and the
\* working tree at the old tip's content.
C26_PullMovesOnlyTheNamedBranch ==
    [][result'.op = "pull"
       => /\ HEAD' = HEAD /\ index' = index /\ workdir' = workdir
          /\ remoteRefs' = remoteRefs /\ upstream' = upstream
          /\ commits' = commits /\ remotes' = remotes
          /\ \A n \in Names \ {result'.arg} : heads'[n] = heads[n]
          /\ ~(result'.status = "ok" /\ result'.value = "FastForwarded")
                => heads' = heads]_vars

\* A FastForwarded pull moved the checked-out branch and the index and the
\* working tree still hold the old tip's tree.
C26_Witness ==
    /\ result.op = "pull" /\ result.status = "ok" /\ result.value = "FastForwarded"
    /\ HEAD = HeadRefName(result.arg)
    /\ heads[result.arg] = result.new_id
    /\ result.old_id # result.new_id
    /\ index = commits[result.old_id].tree
    /\ workdir = commits[result.old_id].tree
    /\ workdir # commits[result.new_id].tree

\* C27: a checkout that returns an error, at whichever step, leaves HEAD, the
\* local branches with their upstreams, the index and the working tree as
\* they were; only the remote-tracking references may have been updated by
\* the fetch.
C27_FailedCheckoutSwitchesNothing ==
    [][(result'.op = "checkout" /\ result'.status = "err")
       => /\ HEAD' = HEAD
          /\ heads' = heads
          /\ upstream' = upstream
          /\ index' = index
          /\ workdir' = workdir]_vars

\* The pull that returned last ran with a commit of the other caller on its
\* branch between its lookups and its decision.
InterleavedPullReturned ==
    result.op = "pull" /\ pulling.phase = "done" /\ pulling.during # 0

====
